---- MODULE Spec2Model ----
(***************************************************************************)
(* Model of compress_video.py: the construction of the ffmpeg command, the *)
(* child process with its two captured pipes, the loop that monitors the   *)
(* child's standard error and drives the tqdm progress bar, and the final  *)
(* size report.  Elapsed time is counted in whole seconds.                 *)
(***************************************************************************)
EXTENDS Integers, Sequences, FiniteSets, TLC

\* ------------------------------------------------------------------ bounds
\* Number of lines the child writes to standard error in one run.
MaxLines == 2
\* Capacity of the standard-error pipe, in lines.
StderrCap == 2
\* Capacity of the standard-output pipe, in chunks.
StdoutCap == 1

\* ------------------------------------------------------- Python values
\* A string, a number, and an ffmpeg filter chain (a comma-joined list of
\* stages, each "name=arg:arg:..."), as they appear in the token list.
Str(s) == [ty |-> "str", s |-> s, n |-> 0, chain |-> <<>>]
Num(n) == [ty |-> "num", s |-> "", n |-> n, chain |-> <<>>]
Stage(name, args) == [name |-> name, args |-> args]
Filter(stages) == [ty |-> "filter", s |-> "", n |-> 0, chain |-> stages]

\* Defaults of compress_video's signature.
fps == 25
input_file_path == Str("in.mp4")
output_file_path == Str("out.mp4")

\* ---------------------------------------------------------------- inputs
Tiers == {Str("low"), Str("medium"), Str("high"), Str("ultra")}
\* Durations (seconds) the probe reports, and seconds to cut from the end.
Durations == {1, 2}
Cuts == {0, 2}
Sizes == {0, 1024}
\* What get_roi_to_crop returns: None (no frame read) or (x, y, w, h).
None == <<>>
ROIs == {None, <<1, 2, 3, 4>>}

\* A line of the child's standard error is a sequence of space-separated
\* words, each a key ("time=", "frame=", or "" for plain text) followed by
\* its value, the value given as its colon-separated fields.
Word(key, fields) == [key |-> key, fields |-> fields]
StatusLine(fields) == <<Word("frame=", <<Num(1)>>), Word("time=", fields)>>
DiagLine == <<Word("", <<Str("Stream")>>)>>
Lines ==
  { DiagLine,
    StatusLine(<<Num(0), Num(0), Num(1)>>),
    StatusLine(<<Num(0), Num(0), Num(2)>>),
    StatusLine(<<Num(0), Num(1), Num(0)>>),
    StatusLine(<<Str("N/A")>>),
    StatusLine(<<Num(0), Num(1)>>) }

VARIABLES
  pc,               \* position of compress_video
  outcome,          \* "none", "ok", or the exception that ended the run
  seconds_to_cut, video_resolution, overwrite, remove_audio, crop_video,
  duration, ip_size, op_size, new_duration,
  cmd,              \* the token list handed to Popen
  process,          \* the child: state, returncode, waited, pipe handles
  stdoutPipe,       \* chunks the child wrote to stdout, not yet read
  stderrPipe,       \* lines the child wrote to stderr, not yet read
  written,          \* lines the child has written so far
  line,             \* the loop variable of the monitoring loop
  pbar,             \* the tqdm bar: n, total, closed
  probedOutput,     \* get_video_params(output_file_path) was called
  reported          \* the compression report was printed

vars == <<pc, outcome, seconds_to_cut, video_resolution, overwrite,
          remove_audio, crop_video, duration, ip_size, op_size, new_duration,
          cmd, process, stdoutPipe, stderrPipe, written, line, pbar,
          probedOutput, reported>>

request == <<seconds_to_cut, overwrite, remove_audio, crop_video>>
child == <<process, stdoutPipe, stderrPipe, written>>

NoProcess ==
  [state |-> "none", returncode |-> 0, waited |-> FALSE,
   stdoutOpen |-> FALSE, stderrOpen |-> FALSE]

Init ==
  /\ pc = "probe_input"
  /\ outcome = "none"
  /\ seconds_to_cut \in Cuts
  /\ video_resolution \in Tiers
  /\ overwrite \in BOOLEAN
  /\ remove_audio \in BOOLEAN
  /\ crop_video \in BOOLEAN
  /\ duration = 0 /\ ip_size = 0 /\ op_size = 0 /\ new_duration = 0
  /\ cmd = <<>>
  /\ process = NoProcess
  /\ stdoutPipe = 0
  /\ stderrPipe = <<>>
  /\ written = 0
  /\ line = <<>>
  /\ pbar = [n |-> 0, total |-> 0, closed |-> TRUE]
  /\ probedOutput = FALSE
  /\ reported = FALSE

\* The run ends with an exception.
Raise(exc) ==
  /\ pc' = "error"
  /\ outcome' = exc

\* duration, frames, ip_size = get_video_params(input_file_path)
\* new_duration = duration - seconds_to_cut
GetInputParams ==
  /\ pc = "probe_input"
  /\ \/ /\ \E d \in Durations, sz \in Sizes :
             /\ duration' = d
             /\ ip_size' = sz
             /\ new_duration' = d - seconds_to_cut
        /\ pc' = "build"
        /\ outcome' = outcome
     \/ /\ Raise("ffmpeg.Error")
        /\ UNCHANGED <<duration, ip_size, new_duration>>
  /\ UNCHANGED <<request, video_resolution, op_size, cmd, child, line, pbar,
                 probedOutput, reported>>


\* ------------------------------------------------------ command builder
\* match(video_resolution): three cases and no default, so any other value
\* is left as it was passed.
ResolveTier(v) ==
  CASE v = Str("low") -> Num(480)
    [] v = Str("medium") -> Num(720)
    [] v = Str("high") -> Num(1080)
    [] OTHER -> v

\* single_cmd = ('-vf', f'crop={w}:{h}:{x}:{y}') with x, y, w, h = roi
SingleCmd(crop, roi) ==
  IF crop
    THEN <<Str("-vf"),
           Filter(<<Stage("crop", <<Num(roi[3]), Num(roi[4]),
                                     Num(roi[1]), Num(roi[2])>>)>>)>>
    ELSE <<>>

\* cmd = ['ffmpeg', '-i', ..., output_file_path]
BuildCmd(newdur, res, single_cmd, noaudio, ow) ==
  <<Str("ffmpeg"), Str("-i"), input_file_path,
    Str("-t"), Num(newdur),
    Str("-vf"), Filter(<<Stage("fps", <<Num(fps)>>),
                         Stage("scale", <<res, Num(-1)>>)>>),
    Str("-c:v"), Str("libx265")>>
  \o single_cmd
  \o (IF noaudio THEN <<Str("-an")>> ELSE <<Str("-c:a"), Str("copy")>>)
  \o <<IF ow THEN Str("-y") ELSE Str("n"), output_file_path>>

\* Lines 66-91: resolve the tier, ask for the crop rectangle, build cmd.
\* Unpacking None into x, y, w, h raises TypeError.
Build ==
  /\ pc = "build"
  /\ video_resolution' = ResolveTier(video_resolution)
  /\ \/ /\ ~crop_video
        /\ cmd' = BuildCmd(new_duration, video_resolution', SingleCmd(FALSE, None),
                           remove_audio, overwrite)
        /\ pc' = "launch"
        /\ outcome' = outcome
     \/ /\ crop_video
        /\ \E roi \in ROIs :
             IF Len(roi) # 4
               THEN Raise("TypeError") /\ cmd' = cmd
               ELSE /\ cmd' = BuildCmd(new_duration, video_resolution',
                                       SingleCmd(TRUE, roi), remove_audio, overwrite)
                    /\ pc' = "launch"
                    /\ outcome' = outcome
  /\ UNCHANGED <<request, duration, ip_size, op_size, new_duration, child,
                 line, pbar, probedOutput, reported>>

\* ------------------------------------------------------------ the child
\* process = subprocess.Popen(cmd, stdout=PIPE, stderr=PIPE, ...)
\* pbar = tqdm(total=duration, ...)
Launch ==
  /\ pc = "launch"
  /\ \/ /\ process' = [state |-> "running", returncode |-> 0, waited |-> FALSE,
                       stdoutOpen |-> TRUE, stderrOpen |-> TRUE]
        /\ pbar' = [n |-> 0, total |-> duration, closed |-> FALSE]
        /\ pc' = "monitor"
        /\ outcome' = outcome
     \/ /\ Raise("FileNotFoundError")
        /\ UNCHANGED <<process, pbar>>
  /\ UNCHANGED <<request, video_resolution, duration, ip_size, op_size,
                 new_duration, cmd, stdoutPipe, stderrPipe, written, line,
                 probedOutput, reported>>

\* The child writes one line to standard error; with the pipe full the
\* write waits for the reader.
ChildWriteStderr ==
  /\ process.state = "running"
  /\ written < MaxLines
  /\ Len(stderrPipe) < StderrCap
  /\ \E l \in Lines : stderrPipe' = Append(stderrPipe, l)
  /\ written' = written + 1
  /\ UNCHANGED <<pc, outcome, request, video_resolution, duration, ip_size,
                 op_size, new_duration, cmd, process, stdoutPipe, line, pbar,
                 probedOutput, reported>>

\* The child writes one chunk to standard output; with the pipe full the
\* child blocks in the write until someone reads standard output.
ChildWriteStdout ==
  /\ process.state = "running"
  /\ IF stdoutPipe < StdoutCap
       THEN stdoutPipe' = stdoutPipe + 1 /\ process' = process
       ELSE stdoutPipe' = stdoutPipe /\ process' = [process EXCEPT !.state = "blocked"]
  /\ UNCHANGED <<pc, outcome, request, video_resolution, duration, ip_size,
                 op_size, new_duration, cmd, stderrPipe, written, line, pbar,
                 probedOutput, reported>>

\* The child exits, which closes the write ends of both pipes.
ChildExit ==
  /\ process.state = "running"
  /\ \E rc \in {0, 1} :
       process' = [process EXCEPT !.state = "exited", !.returncode = rc]
  /\ UNCHANGED <<pc, outcome, request, video_resolution, duration, ip_size,
                 op_size, new_duration, cmd, stdoutPipe, stderrPipe, written,
                 line, pbar, probedOutput, reported>>

\* ------------------------------------------------------ the monitor loop
\* "time=" in line
ContainsTime(l) == \E i \in 1..Len(l) : l[i].key = "time="

\* line.split('time=')[1].split(' ')[0], then .split(':')
TimeStr(l) ==
  LET i == CHOOSE k \in 1..Len(l) :
             /\ l[k].key = "time="
             /\ \A j \in 1..(k - 1) : l[j].key # "time="
  IN l[i].fields

\* hours, minutes, seconds = map(float, ...) succeeds: three fields, each a
\* number.
Parses(fields) ==
  /\ Len(fields) = 3
  /\ \A i \in 1..3 : fields[i].ty = "num"

\* current_time = hours * 3600 + minutes * 60 + seconds
current_time(fields) == fields[1].n * 3600 + fields[2].n * 60 + fields[3].n

\* tqdm's update(delta): n += delta
Update(bar, delta) == [bar EXCEPT !.n = @ + delta]

\* A bar that also advances by one on every line without a time.
MonitorStepEveryLine(bar, l) ==
  IF ContainsTime(l)
    THEN Update(bar, current_time(TimeStr(l)) - bar.n)
    ELSE Update(bar, 1)

\* The body of the loop for a line that parses (or has no time at all).
MonitorStep(bar, l) ==
  IF ContainsTime(l)
    THEN Update(bar, current_time(TimeStr(l)) - bar.n)
    ELSE bar

\* for line in process.stderr: one iteration.
MonitorLine ==
  /\ pc = "monitor"
  /\ stderrPipe # <<>>
  /\ line' = Head(stderrPipe)
  /\ stderrPipe' = Tail(stderrPipe)
  /\ IF ContainsTime(line') /\ ~Parses(TimeStr(line'))
       THEN Raise("ValueError") /\ pbar' = pbar
       ELSE /\ pbar' = MonitorStep(pbar, line')
            /\ UNCHANGED <<pc, outcome>>
  /\ UNCHANGED <<request, video_resolution, duration, ip_size, op_size,
                 new_duration, cmd, process, stdoutPipe, written,
                 probedOutput, reported>>

\* The loop ends when standard error reaches end-of-file: the pipe is empty
\* and the child has closed its end.
MonitorEOF ==
  /\ pc = "monitor"
  /\ stderrPipe = <<>>
  /\ process.state = "exited"
  /\ pc' = "communicate"
  /\ UNCHANGED <<outcome, request, video_resolution, duration, ip_size,
                 op_size, new_duration, cmd, child, line, pbar, probedOutput,
                 reported>>

\* process.communicate(): reads what is left in both pipes, closes them and
\* waits for the child.
Communicate ==
  /\ pc = "communicate"
  /\ process.state = "exited"
  /\ stdoutPipe' = 0
  /\ process' = [process EXCEPT !.waited = TRUE, !.stdoutOpen = FALSE,
                                !.stderrOpen = FALSE]
  /\ pc' = "final_update"
  /\ UNCHANGED <<outcome, request, video_resolution, duration, ip_size,
                 op_size, new_duration, cmd, stderrPipe, written, line, pbar,
                 probedOutput, reported>>

\* pbar.update(duration - pbar.n); pbar.close()
FinalUpdate ==
  /\ pc = "final_update"
  /\ pbar' = [Update(pbar, duration - pbar.n) EXCEPT !.closed = TRUE]
  /\ pc' = "probe_output"
  /\ UNCHANGED <<outcome, request, video_resolution, duration, ip_size,
                 op_size, new_duration, cmd, child, line, probedOutput,
                 reported>>

\* ------------------------------------------------------------ the report
\* duration, frames, op_size = get_video_params(output_file_path)
GetOutputParams ==
  /\ pc = "probe_output"
  /\ probedOutput' = TRUE
  /\ \/ /\ \E d \in Durations, sz \in Sizes :
             /\ duration' = d
             /\ op_size' = sz
        /\ pc' = "report"
        /\ outcome' = outcome
     \/ /\ Raise("ffmpeg.Error")
        /\ UNCHANGED <<duration, op_size>>
  /\ UNCHANGED <<request, video_resolution, ip_size, new_duration, cmd, child,
                 line, pbar, reported>>

\* diff_size = ip_size - op_size; print(... diff_size/ip_size*100 ...)
Report ==
  /\ pc = "report"
  /\ IF ip_size = 0
       THEN Raise("ZeroDivisionError") /\ reported' = reported
       ELSE /\ reported' = TRUE
            /\ pc' = "done"
            /\ outcome' = "ok"
  /\ UNCHANGED <<request, video_resolution, duration, ip_size, op_size,
                 new_duration, cmd, child, line, pbar, probedOutput>>

Next ==
  \/ GetInputParams
  \/ Build
  \/ Launch
  \/ ChildWriteStderr
  \/ ChildWriteStdout
  \/ ChildExit
  \/ MonitorLine
  \/ MonitorEOF
  \/ Communicate
  \/ FinalUpdate
  \/ GetOutputParams
  \/ Report

Spec == Init /\ [][Next]_vars

\* ---------------------------------------------------------------- claims
\* The run has stopped: it returned or an exception left compress_video.
Stopped == pc \in {"done", "error"}
Launched == process.state # "none"
KnownHeights == {Num(480), Num(720), Num(1080)}

\* The positions of the video-filter flag in a token list, and the stages
\* of the chain that follows the first of them.
VfFlags(c) == {i \in DOMAIN c : c[i] = Str("-vf")}
FirstChain(c) ==
  LET i == CHOOSE k \in VfFlags(c) : \A j \in VfFlags(c) : k <= j
  IN c[i + 1].chain
StageNames(chain) == {chain[i].name : i \in DOMAIN chain}
ScaleStage(c) ==
  LET ch == FirstChain(c)
      i == CHOOSE k \in DOMAIN ch : ch[k].name = "scale"
  IN ch[i]

\* C1: once the child has exited and the run has stopped, the progress bar
\* stands at the total duration exactly, whatever lines the child wrote.
C1_FinalValueIsTotal ==
  (Launched /\ Stopped /\ process.state = "exited") => pbar.n = pbar.total

\* C2: the value shown by the progress bar never decreases during a run,
\* the final forced update included.
C2_ProgressNeverMovesBackward == [][pbar'.n >= pbar.n]_vars

\* C3: after the child exited with a non-zero code the output file is not
\* probed, no report is printed, and the run does not end in success.
C3_FailedChildNeverProbed ==
  (process.state = "exited" /\ process.returncode # 0)
    => (~probedOutput /\ ~reported /\ outcome # "ok")

\* C4: with seconds_to_cut >= the probed duration (output duration <= 0) no
\* child process is ever launched.
C4_NoLaunchWithoutDuration ==
  (pc # "probe_input" /\ new_duration <= 0) => ~Launched

\* C5: no command is built and no child is launched with a resolution
\* other than 480, 720 or 1080.
C5_OnlyKnownHeights ==
  (cmd # <<>> \/ Launched) => video_resolution \in KnownHeights

\* C6: the token list holds exactly one video-filter flag, whose chain holds
\* the frame-rate stage, the scale stage and, with cropping, the crop stage.
C6_SingleFilterFlag ==
  cmd # <<>> =>
    /\ Cardinality(VfFlags(cmd)) = 1
    /\ StageNames(FirstChain(cmd)) =
         {"fps", "scale"} \cup (IF crop_video THEN {"crop"} ELSE {})

\* C7: for a valid tier the scale stage (scale=width:height) has the tier's
\* number as its height and leaves the width automatic (-1).
C7_ScaleTargetsHeight ==
  (cmd # <<>> /\ video_resolution \in KnownHeights)
    => ScaleStage(cmd).args = <<Num(-1), video_resolution>>

\* C8: whenever the run has stopped after launching the child, the child
\* has been waited for and both pipes are closed.
C8_ResourcesReleased ==
  (Launched /\ Stopped)
    => (process.waited /\ ~process.stdoutOpen /\ ~process.stderrOpen)

\* C9: an iteration of the monitoring loop over a line without "time="
\* leaves the progress bar as it was.
C9_NoTimeLineKeepsProgress ==
  [][(/\ pc = "monitor"
      /\ stderrPipe # <<>>
      /\ ~ContainsTime(Head(stderrPipe))
      /\ line' = Head(stderrPipe)
      /\ stderrPipe' = Tail(stderrPipe))
     => pbar' = pbar]_vars

\* C9 witness: the loop has just processed a line without "time=" while the
\* bar already stood at a positive value, and the loop goes on.
C9_Witness ==
  /\ pc = "monitor"
  /\ line = DiagLine
  /\ pbar.n > 0

\* C10: the child is never blocked writing to a full standard-output pipe
\* while the run waits for a line on an empty standard-error pipe.
C10_NoPipeDeadlock ==
  ~(pc = "monitor" /\ stderrPipe = <<>> /\ process.state = "blocked")

====
